---- MODULE Spec2Model ----
(***************************************************************************)
(* front-web: the config watcher (src/app/controller.py) and the           *)
(* certificate provisioning orchestrator (src/deploy.py).                  *)
(*                                                                         *)
(* Strings are sequences of one-character strings, a text file is the      *)
(* sequence of its lines (str.splitlines), a path is the sequence of its   *)
(* components.                                                             *)
(***************************************************************************)
EXTENDS Integers, Sequences, FiniteSets, TLC

(***************************************************************************)
(* Bounds of the model.                                                    *)
(***************************************************************************)
\* how many times the environment writes or deletes a source file
MaxEnvSteps == 2

(***************************************************************************)
(* String helpers (Python str methods used by both programs).              *)
(***************************************************************************)
IsSpace(c) == c \in {" ", "\t", "\r", "\n"}

RECURSIVE LStrip(_)
LStrip(s) == IF s # <<>> /\ IsSpace(Head(s)) THEN LStrip(Tail(s)) ELSE s

RECURSIVE RStrip(_)
RStrip(s) ==
    IF s # <<>> /\ IsSpace(s[Len(s)]) THEN RStrip(SubSeq(s, 1, Len(s) - 1)) ELSE s

\* str.strip()
Strip(s) == RStrip(LStrip(s))

\* str.startswith(p)
StartsWith(s, p) == Len(s) >= Len(p) /\ SubSeq(s, 1, Len(p)) = p

\* sep.join(xs)
RECURSIVE Join(_, _)
Join(xs, sep) ==
    IF xs = <<>> THEN <<>>
    ELSE IF Len(xs) = 1 THEN xs[1]
    ELSE xs[1] \o sep \o Join(Tail(xs), sep)

\* the lines of a file that are neither blank nor comments, stripped
StripLine(i, lines) == Strip(lines[i])
IsContentLine(s) == s # <<>> /\ ~StartsWith(s, <<"#">>)
ContentLines(lines) ==
    SelectSeq([i \in 1..Len(lines) |-> StripLine(i, lines)], IsContentLine)

(***************************************************************************)
(* The watcher's file system.                                              *)
(***************************************************************************)
Cwd == <<"app">>
NGINX_SITES_DIR == <<"app", "nginx-sites">>
NGINX_HTTP_CONF == "00-front-web-http.conf"

domain_candidates ==
    << <<"app", "app", "domain.list">>,
       <<"app", "domain.list">>,
       Cwd \o <<"app", "domain.list">>,
       Cwd \o <<"domain.list">> >>

proxy_candidates ==
    << <<"app", "app", "proxy_pass">>,
       <<"app", "proxy_pass">>,
       Cwd \o <<"app", "proxy_pass">>,
       Cwd \o <<"proxy_pass">> >>

conf_path == NGINX_SITES_DIR \o <<NGINX_HTTP_CONF>>
tmp_path == NGINX_SITES_DIR \o <<NGINX_HTTP_CONF \o ".tmp">>

Range(f) == {f[i] : i \in DOMAIN f}
DomainPaths == Range(domain_candidates)
ProxyPaths == Range(proxy_candidates)
Paths == DomainPaths \cup ProxyPaths \cup {conf_path, tmp_path}

NoPath == <<>>
NoFile == [exists |-> FALSE, lines |-> <<>>, mtime |-> 0]
File(lines, t) == [exists |-> TRUE, lines |-> lines, mtime |-> t]

\* lines the source files are made of
L_a == <<"a", ".", "c">>
L_a_sp == <<" ", "a", ".", "c", " ">>
L_b == <<"b", ".", "c">>
L_inv == <<"-", "a">>
L_cmt == <<"#", "x">>
L_blank == <<" ">>
L_p == <<"x", ":", "8", "0">>
L_q == <<" ", "y", ":", "8", "1">>

DomFileA == <<L_cmt, L_a_sp, L_b, L_a>>
DomFileB == <<L_b, L_blank, L_inv>>
DomFileNone == <<L_cmt, L_blank>>
ProxyFileP == <<L_cmt, L_p, L_q>>
ProxyFileQ == <<L_q>>
ProxyFileNone == <<L_blank, L_cmt>>
EmptyFile == <<>>

EnvDomainContents == {DomFileB, DomFileNone, EmptyFile}
EnvProxyContents == {ProxyFileQ, ProxyFileNone}

VARIABLES
    fs,                 \* path -> file
    clock,              \* number of environment steps so far
    pc,                 \* the watcher's position in main()
    in_loop,            \* the watcher is inside `while True` (RUNNING)
    exit_code,          \* the watcher's exit status once pc = "exited"
    domains, proxy_pass, domain_path, proxy_path,
    last_domain_mtime, last_proxy_mtime,
    new_domain_mtime, new_proxy_mtime,
    ld_domain_path, ld_proxy_path, ld_domains,   \* locals of load_configs
    conf,               \* local of write_http_vhost
    snap,               \* history: output file, WatchState and clock when the
                        \* attempt began, and whether the attempt before it failed
    outcome,            \* history: how the last reload attempt ended
    load_bad            \* history: the attempt met an unloadable input

wvars == <<fs, clock, pc, in_loop, exit_code, domains, proxy_pass, domain_path,
           proxy_path, last_domain_mtime, last_proxy_mtime, new_domain_mtime,
           new_proxy_mtime, ld_domain_path, ld_proxy_path, ld_domains, conf,
           snap, outcome, load_bad>>

WatchState ==
    [domain_mtime |-> last_domain_mtime, proxy_mtime |-> last_proxy_mtime,
     domains |-> domains, proxy_pass |-> proxy_pass]

(***************************************************************************)
(* controller.py helpers.                                                  *)
(***************************************************************************)
IsNonEmptyFile(p) == fs[p].exists /\ Len(fs[p].lines) > 0

RECURSIVE _first_existing_file(_)
_first_existing_file(paths) ==
    IF paths = <<>> THEN NoPath
    ELSE IF IsNonEmptyFile(Head(paths)) THEN Head(paths)
    ELSE _first_existing_file(Tail(paths))

mtime(path) == IF fs[path].exists THEN fs[path].mtime ELSE 0

\* mutant: the last content line is taken for the first
FirstContentLine_Last(cl) == IF cl = <<>> THEN <<>> ELSE cl[Len(cl)]

\* load_configs lines 70-76: the first content line, or ""
FirstContentLine(cl) == IF cl = <<>> THEN <<>> ELSE cl[1]

\* the fixed text of the document, in the pieces the two inputs cut it into
DocHead == <<"server {\n    listen 80;\n">>
DocAcme == <<"\n    location /.well-known/acme-challenge/ {\n        root /var/www/certbot;\n    }\n\n    location / {\n">>
DocTail == <<"        proxy_read_timeout    90;\n        proxy_connect_timeout 90;\n        proxy_set_header Host $http_host;\n        proxy_set_header X-Forwarded-For $proxy_add_x_forwarded_for;\n        proxy_set_header X-Real-IP $remote_addr;\n        proxy_http_version 1.1;\n    }\n}\n">>

\* write_http_vhost lines 94-115: the document, as the sequence of its pieces
ServerNames(ds) == Join(ds, <<" ">>)
RenderConf(ds, pp) ==
    << DocHead,
       <<"    server_name ">> \o ServerNames(ds) \o <<";\n">>,
       DocAcme,
       <<"        proxy_pass ">> \o pp \o <<";\n">>,
       DocTail >>

(***************************************************************************)
(* deploy.py: domain validation and grouping.                              *)
(***************************************************************************)
\* the characters of the model in code point order (str comparison, sorted)
CodePoints ==
    <<"\t", "\n", "\r", " ", "#", "-", ".",
      "0", "1", "2", "3", "4", "5", "6", "7", "8", "9", ":",
      "A", "B", "C", "D", "E", "F", "G", "H", "I", "J", "K", "L", "M",
      "N", "O", "P", "Q", "R", "S", "T", "U", "V", "W", "X", "Y", "Z",
      "a", "b", "c", "d", "e", "f", "g", "h", "i", "j", "k", "l", "m",
      "n", "o", "p", "q", "r", "s", "t", "u", "v", "w", "x", "y", "z">>
Ord(c) == CHOOSE i \in 1..Len(CodePoints) : CodePoints[i] = c

\* Python's < on str
RECURSIVE StrLess(_, _)
StrLess(a, b) ==
    IF b = <<>> THEN FALSE
    ELSE IF a = <<>> THEN TRUE
    ELSE IF Head(a) = Head(b) THEN StrLess(Tail(a), Tail(b))
    ELSE Ord(Head(a)) < Ord(Head(b))

AlnumChars ==
    {"0", "1", "2", "3", "4", "5", "6", "7", "8", "9",
     "A", "B", "C", "D", "E", "F", "G", "H", "I", "J", "K", "L", "M",
     "N", "O", "P", "Q", "R", "S", "T", "U", "V", "W", "X", "Y", "Z",
     "a", "b", "c", "d", "e", "f", "g", "h", "i", "j", "k", "l", "m",
     "n", "o", "p", "q", "r", "s", "t", "u", "v", "w", "x", "y", "z"}

\* DOMAIN_RE.match(d), line 43
DOMAIN_RE(d) ==
    /\ Len(d) >= 2
    /\ d[1] \in AlnumChars
    /\ d[Len(d)] \in AlnumChars
    /\ \A i \in 2..(Len(d) - 1) : d[i] \in AlnumChars \cup {".", "-"}

Contains(s, c) == \E i \in 1..Len(s) : s[i] = c

\* mutant: the `"." not in d` test of line 62 is missing
IsValidDomain_NoDotCheck(d) == DOMAIN_RE(d)

\* read_domains line 62, negated
IsValidDomain(d) == Contains(d, ".") /\ DOMAIN_RE(d)

\* str.replace("\r", "")
RemoveCR(s) == SelectSeq(s, LAMBDA c : c # "\r")

\* read_domains lines 48-53
RawLine(i, lines) == RemoveCR(Strip(lines[i]))
RawDomains(lines) ==
    SelectSeq([i \in 1..Len(lines) |-> RawLine(i, lines)], IsContentLine)

\* read_domains lines 56-65: de-duplicate keeping order, then validate
RECURSIVE DedupValidate(_, _)
DedupValidate(raw, seen) ==
    IF raw = <<>> THEN <<>>
    ELSE LET d == Head(raw)
         IN  IF d \in seen THEN DedupValidate(Tail(raw), seen)
             ELSE IF ~IsValidDomain(d) THEN DedupValidate(Tail(raw), seen \cup {d})
             ELSE <<d>> \o DedupValidate(Tail(raw), seen \cup {d})

\* read_domains lines 48-69: [ok, out]; ok = FALSE is the SystemExit of line 68
read_domains(lines) ==
    LET out == DedupValidate(RawDomains(lines), {})
    IN  [ok |-> out # <<>>, out |-> out]

WwwPrefix == <<"w", "w", "w", ".">>

\* mutant: every leading "www." is stripped, not only the first
RECURSIVE Apex_Recursive(_)
Apex_Recursive(d) ==
    IF StartsWith(d, WwwPrefix) THEN Apex_Recursive(SubSeq(d, 5, Len(d))) ELSE d

\* group_domains line 77
Apex(d) == IF StartsWith(d, WwwPrefix) THEN SubSeq(d, 5, Len(d)) ELSE d

\* group_domains lines 80-86
GroupNames(apex, present) ==
    (IF apex \in present THEN <<apex>> ELSE <<>>)
    \o (IF (WwwPrefix \o apex) \in present THEN <<WwwPrefix \o apex>> ELSE <<>>)

\* sorted(keys), line 89
RECURSIVE Sorted(_)
Sorted(S) ==
    IF S = {} THEN <<>>
    ELSE LET m == CHOOSE x \in S : \A y \in S \ {x} : StrLess(x, y)
         IN  <<m>> \o Sorted(S \ {m})

\* the keys of `groups` in insertion order, lines 76-78
RECURSIVE ApexesInOrder(_, _)
ApexesInOrder(ds, seen) ==
    IF ds = <<>> THEN <<>>
    ELSE LET a == Apex(Head(ds))
         IN  IF a \in seen THEN ApexesInOrder(Tail(ds), seen)
             ELSE <<a>> \o ApexesInOrder(Tail(ds), seen \cup {a})

GroupsOf(keys, present) ==
    [i \in 1..Len(keys) |-> [apex |-> keys[i], names |-> GroupNames(keys[i], present)]]

\* mutant: line 89 without sorted(), the groups in insertion order
group_domains_Unsorted(ds) ==
    GroupsOf(ApexesInOrder(ds, {}), Range(ds))

\* group_domains lines 71-89
group_domains(ds) ==
    GroupsOf(Sorted(Range(ApexesInOrder(ds, {}))), Range(ds))

\* lines of domain.list for the orchestrator
D_a == <<"a", ".", "c">>
D_wa == <<"w", "w", "w", ".", "a", ".", "c">>
D_wwa == <<"w", "w", "w", ".", "w", "w", "w", ".", "a", ".", "c">>
D_b == <<"b", ".", "c">>
D_B == <<"B", ".", "c">>
D_a_b == <<"a", "-", "b", ".", "c">>
D_a_sp == <<" ", "a", ".", "c", "\t">>
D_bad_hyphen == <<"-", "b", ".", "c">>
D_bad_nodot == <<"a", "b">>
D_bad_space == <<"a", " ", "c", ".", "c">>
D_bad_dot == <<"b", ".", "c", ".">>
D_cmt == <<"#", "a", ".", "c">>
D_blank == <<>>

LinePool ==
    {D_a, D_wa, D_wwa, D_b, D_B, D_a_b, D_a_sp, D_bad_hyphen, D_bad_nodot,
     D_bad_space, D_bad_dot, D_cmt, D_blank}

\* how many lines domain.list has when the two functions are checked alone
MaxLines == 3

SeqsUpTo(S, n) == UNION {[1..k -> S] : k \in 0..n}

VARIABLES
    d_pc,        \* the orchestrator's position in main()
    d_run,       \* which run of the orchestrator this is
    d_files,     \* which of DOMAIN_FILE, PROXY_FILE exist
    d_lines,     \* the lines of DOMAIN_FILE
    flags,       \* do_staging, do_prod, force_prod, check_a (lines 148-151)
    pub4,        \* main's `pub4`
    d_raw,       \* history: `raw` of read_domains
    d_domains,   \* main's `domains`
    groups,      \* main's `groups`
    d_i,         \* index of the group the loop of line 172 is at
    certs,       \* files under data/certbot/conf/live: <<certname, file>>
    calls,       \* history: the external commands of this run, in order
    gate,        \* history: the DNS checks of this run, in order
    issuing,     \* history: the apexes that reached line 184 in this run
    hist,        \* history: the staging invocations of all runs, in order
    d_exit,      \* the orchestrator's exit status
    d_why        \* the SystemExit message, or "command failed"

dvars == <<d_pc, d_run, d_files, d_lines, flags, pub4, d_raw, d_domains, groups,
           d_i, certs, calls, gate, issuing, hist, d_exit, d_why>>

NoFlags == [do_staging |-> FALSE, do_prod |-> FALSE, force_prod |-> FALSE,
            check_a |-> FALSE]

\* the orchestrator is not running
DIdle ==
    /\ d_pc = "idle" /\ d_run = 0
    /\ d_files = [domain |-> FALSE, proxy |-> FALSE]
    /\ d_lines = <<>> /\ flags = NoFlags /\ pub4 = <<>>
    /\ d_raw = <<>> /\ d_domains = <<>> /\ groups = <<>> /\ d_i = 0
    /\ certs = {} /\ calls = <<>> /\ gate = <<>> /\ issuing = {} /\ hist = <<>>
    /\ d_exit = 0 /\ d_why = ""

(***************************************************************************)
(* The watcher: main() of controller.py.                                   *)
(***************************************************************************)
WInit ==
    /\ \E d1 \in {NoFile, File(DomFileA, 1), File(DomFileNone, 1)},
          d2 \in {NoFile, File(DomFileB, 1)},
          p1 \in {NoFile, File(ProxyFileP, 1)},
          p2 \in {NoFile, File(ProxyFileQ, 1)} :
          fs = [p \in Paths |->
                  IF p = domain_candidates[1] THEN d1
                  ELSE IF p = domain_candidates[2] THEN d2
                  ELSE IF p = proxy_candidates[1] THEN p1
                  ELSE IF p = proxy_candidates[2] THEN p2
                  ELSE NoFile]
    /\ clock = 0
    /\ pc = "start"
    /\ in_loop = FALSE
    /\ exit_code = 0
    /\ domains = <<>> /\ proxy_pass = <<>>
    /\ domain_path = NoPath /\ proxy_path = NoPath
    /\ last_domain_mtime = 0 /\ last_proxy_mtime = 0
    /\ new_domain_mtime = 0 /\ new_proxy_mtime = 0
    /\ ld_domain_path = NoPath /\ ld_proxy_path = NoPath /\ ld_domains = <<>>
    /\ conf = <<>>
    /\ snap = [out |-> NoFile, ws |-> WatchState, clock |-> 0, retry |-> FALSE]
    /\ outcome = "none"
    /\ load_bad = FALSE
    /\ DIdle

\* mutant: SystemExit is never caught, the loop dies with the failed reload
HandleSystemExit_Fatal ==
    pc' = "exited" /\ exit_code' = 1 /\ UNCHANGED outcome

\* mutant: SystemExit is swallowed at startup too
HandleSystemExit_Swallowed ==
    pc' = "sleep" /\ UNCHANGED <<exit_code, outcome>>

\* sys.exit(1) inside load_configs: fatal at startup (line 133), caught by
\* `except SystemExit` in the loop (lines 163-165)
HandleSystemExit ==
    IF in_loop
    THEN pc' = "sleep" /\ outcome' = "load_failed" /\ UNCHANGED exit_code
    ELSE pc' = "exited" /\ exit_code' = 1 /\ UNCHANGED outcome

\* any other exception: uncaught at startup, caught by `except Exception`
\* in the loop (lines 166-167)
HandleException(stage) ==
    IF in_loop
    THEN pc' = "sleep" /\ outcome' = stage /\ UNCHANGED exit_code
    ELSE pc' = "exited" /\ exit_code' = 1 /\ UNCHANGED outcome

NoRaise == UNCHANGED <<exit_code, outcome>>

\* line 131-133: main() calls load_configs()
Start ==
    /\ pc = "start"
    /\ pc' = "resolve"
    /\ UNCHANGED dvars
    /\ UNCHANGED <<fs, clock, in_loop, exit_code, domains, proxy_pass, domain_path,
                   proxy_path, last_domain_mtime, last_proxy_mtime, new_domain_mtime,
                   new_proxy_mtime, ld_domain_path, ld_proxy_path, ld_domains, conf,
                   snap, outcome, load_bad>>

\* load_configs lines 39-56
LoadResolve ==
    /\ pc = "resolve"
    /\ LET dp == _first_existing_file(domain_candidates)
           pp == _first_existing_file(proxy_candidates)
       IN  IF dp = NoPath \/ pp = NoPath
           THEN /\ HandleSystemExit
                /\ load_bad' = TRUE
                /\ UNCHANGED <<ld_domain_path, ld_proxy_path>>
           ELSE /\ ld_domain_path' = dp
                /\ ld_proxy_path' = pp
                /\ pc' = "read_domain"
                /\ NoRaise
                /\ UNCHANGED load_bad
    /\ UNCHANGED dvars
    /\ UNCHANGED <<fs, clock, in_loop, domains, proxy_pass, domain_path, proxy_path,
                   last_domain_mtime, last_proxy_mtime, new_domain_mtime,
                   new_proxy_mtime, ld_domains, conf, snap>>

\* mutant: the `if not domains` exit of lines 66-68 is missing
LoadReadDomain_NoEmptyCheck ==
    /\ pc = "read_domain"
    /\ IF ~fs[ld_domain_path].exists
       THEN /\ HandleException("load_failed")
            /\ load_bad' = TRUE
            /\ UNCHANGED ld_domains
       ELSE LET ds == ContentLines(fs[ld_domain_path].lines)
            IN  /\ ld_domains' = ds
                /\ pc' = "read_proxy"
                /\ NoRaise
                /\ load_bad' = (load_bad \/ ds = <<>>)
    /\ UNCHANGED dvars
    /\ UNCHANGED <<fs, clock, in_loop, domains, proxy_pass, domain_path, proxy_path,
                   last_domain_mtime, last_proxy_mtime, new_domain_mtime,
                   new_proxy_mtime, ld_domain_path, ld_proxy_path, conf, snap>>

\* load_configs lines 58-68
LoadReadDomain ==
    /\ pc = "read_domain"
    /\ IF ~fs[ld_domain_path].exists
       THEN /\ HandleException("load_failed")
            /\ load_bad' = TRUE
            /\ UNCHANGED ld_domains
       ELSE LET ds == ContentLines(fs[ld_domain_path].lines)
            IN  IF ds = <<>>
                THEN /\ HandleSystemExit
                     /\ load_bad' = TRUE
                     /\ UNCHANGED ld_domains
                ELSE /\ ld_domains' = ds
                     /\ pc' = "read_proxy"
                     /\ NoRaise
                     /\ UNCHANGED load_bad
    /\ UNCHANGED dvars
    /\ UNCHANGED <<fs, clock, in_loop, domains, proxy_pass, domain_path, proxy_path,
                   last_domain_mtime, last_proxy_mtime, new_domain_mtime,
                   new_proxy_mtime, ld_domain_path, ld_proxy_path, conf, snap>>

\* load_configs returns (line 82) and the caller binds the result:
\* line 133 at startup, line 155 in the loop (which drops the two paths)
LoadReturn(pp) ==
    /\ domains' = ld_domains
    /\ proxy_pass' = pp
    /\ IF in_loop
       THEN /\ pc' = "open_tmp"
            /\ UNCHANGED <<domain_path, proxy_path>>
       ELSE /\ pc' = "stat_domain0"
            /\ domain_path' = ld_domain_path
            /\ proxy_path' = ld_proxy_path

\* load_configs lines 70-82
LoadReadProxy ==
    /\ pc = "read_proxy"
    /\ IF ~fs[ld_proxy_path].exists
       THEN /\ HandleException("load_failed")
            /\ load_bad' = TRUE
            /\ UNCHANGED <<domains, proxy_pass, domain_path, proxy_path>>
       ELSE LET pp == FirstContentLine(ContentLines(fs[ld_proxy_path].lines))
            IN  IF pp = <<>>
                THEN /\ HandleSystemExit
                     /\ load_bad' = TRUE
                     /\ UNCHANGED <<domains, proxy_pass, domain_path, proxy_path>>
                ELSE /\ LoadReturn(pp)
                     /\ NoRaise
                     /\ UNCHANGED load_bad
    /\ UNCHANGED dvars
    /\ UNCHANGED <<fs, clock, in_loop, last_domain_mtime, last_proxy_mtime,
                   new_domain_mtime, new_proxy_mtime, ld_domain_path, ld_proxy_path,
                   ld_domains, conf, snap>>

\* main line 134
InitStatDomain ==
    /\ pc = "stat_domain0"
    /\ last_domain_mtime' = mtime(domain_path)
    /\ pc' = "stat_proxy0"
    /\ UNCHANGED dvars
    /\ UNCHANGED <<fs, clock, in_loop, exit_code, domains, proxy_pass, domain_path,
                   proxy_path, last_proxy_mtime, new_domain_mtime, new_proxy_mtime,
                   ld_domain_path, ld_proxy_path, ld_domains, conf, snap, outcome,
                   load_bad>>

\* main line 135, then the call of write_http_vhost at line 142
InitStatProxy ==
    /\ pc = "stat_proxy0"
    /\ last_proxy_mtime' = mtime(proxy_path)
    /\ pc' = "open_tmp"
    /\ UNCHANGED dvars
    /\ UNCHANGED <<fs, clock, in_loop, exit_code, domains, proxy_pass, domain_path,
                   proxy_path, last_domain_mtime, new_domain_mtime, new_proxy_mtime,
                   ld_domain_path, ld_proxy_path, ld_domains, conf, snap, outcome,
                   load_bad>>

\* write_http_vhost lines 91-118: build the document, open the temporary
\* file for writing (created or truncated); the directory or the open may fail
RenderOpenTmp ==
    /\ pc = "open_tmp"
    /\ conf' = RenderConf(domains, proxy_pass)
    /\ \/ /\ fs' = [fs EXCEPT ![tmp_path] = File(<<>>, 1)]
          /\ pc' = "write_tmp"
          /\ NoRaise
       \/ /\ HandleException("render_failed")
          /\ UNCHANGED fs
    /\ UNCHANGED dvars
    /\ UNCHANGED <<clock, in_loop, domains, proxy_pass, domain_path, proxy_path,
                   last_domain_mtime, last_proxy_mtime, new_domain_mtime,
                   new_proxy_mtime, ld_domain_path, ld_proxy_path, ld_domains,
                   snap, load_bad>>

\* mutant: the document is written straight to the output path
WriteTarget_Direct == conf_path

\* where the document goes while it is being written
WriteTarget == tmp_path

\* write_http_vhost lines 118-119: the whole document reaches the file, or
\* the write is cut short after k pieces and raises
RenderWriteTmp ==
    /\ pc = "write_tmp"
    /\ \/ /\ fs' = [fs EXCEPT ![WriteTarget] = File(conf, 1)]
          /\ pc' = "replace"
          /\ NoRaise
       \/ /\ \E k \in 0..(Len(conf) - 1) :
                fs' = [fs EXCEPT ![WriteTarget] = File(SubSeq(conf, 1, k), 1)]
          /\ HandleException("render_failed")
    /\ UNCHANGED dvars
    /\ UNCHANGED <<clock, in_loop, domains, proxy_pass, domain_path, proxy_path,
                   last_domain_mtime, last_proxy_mtime, new_domain_mtime,
                   new_proxy_mtime, ld_domain_path, ld_proxy_path, ld_domains,
                   conf, snap, load_bad>>

\* write_http_vhost line 120: os.replace(tmp, conf_path); back in main, line 143
\* enters the loop at startup, lines 160-161 go on in the loop
RenderReplace ==
    /\ pc = "replace"
    /\ \/ /\ fs' = [fs EXCEPT ![conf_path] = fs[tmp_path], ![tmp_path] = NoFile]
          /\ pc' = IF in_loop THEN "commit" ELSE "sleep"
          /\ in_loop' = TRUE
          /\ NoRaise
       \/ /\ HandleException("render_failed")
          /\ UNCHANGED <<fs, in_loop>>
    /\ UNCHANGED dvars
    /\ UNCHANGED <<clock, domains, proxy_pass, domain_path, proxy_path,
                   last_domain_mtime, last_proxy_mtime, new_domain_mtime,
                   new_proxy_mtime, ld_domain_path, ld_proxy_path, ld_domains,
                   conf, snap, load_bad>>

\* main lines 161-162
ReloadCommit ==
    /\ pc = "commit"
    /\ last_domain_mtime' = new_domain_mtime
    /\ last_proxy_mtime' = new_proxy_mtime
    /\ outcome' = "ok"
    /\ pc' = "sleep"
    /\ UNCHANGED dvars
    /\ UNCHANGED <<fs, clock, in_loop, exit_code, domains, proxy_pass, domain_path,
                   proxy_path, new_domain_mtime, new_proxy_mtime, ld_domain_path,
                   ld_proxy_path, ld_domains, conf, snap, load_bad>>

\* main lines 148-150
PollStatDomain ==
    /\ pc = "sleep"
    /\ new_domain_mtime' = mtime(domain_path)
    /\ pc' = "stat_proxy"
    /\ UNCHANGED dvars
    /\ UNCHANGED <<fs, clock, in_loop, exit_code, domains, proxy_pass, domain_path,
                   proxy_path, last_domain_mtime, last_proxy_mtime, new_proxy_mtime,
                   ld_domain_path, ld_proxy_path, ld_domains, conf, snap, outcome,
                   load_bad>>

\* main line 151
PollStatProxy ==
    /\ pc = "stat_proxy"
    /\ new_proxy_mtime' = mtime(proxy_path)
    /\ pc' = "compare"
    /\ UNCHANGED dvars
    /\ UNCHANGED <<fs, clock, in_loop, exit_code, domains, proxy_pass, domain_path,
                   proxy_path, last_domain_mtime, last_proxy_mtime, new_domain_mtime,
                   ld_domain_path, ld_proxy_path, ld_domains, conf, snap, outcome,
                   load_bad>>

\* mutant: `and` for `or`
Changed_And ==
    new_domain_mtime # last_domain_mtime /\ new_proxy_mtime # last_proxy_mtime

\* main line 153
Changed ==
    new_domain_mtime # last_domain_mtime \/ new_proxy_mtime # last_proxy_mtime

\* mutant: the baseline is moved when the change is seen, before the load
PollCompare_CommitEarly ==
    /\ pc = "compare"
    /\ IF Changed
       THEN /\ pc' = "resolve"
            /\ snap' = [out |-> fs[conf_path], ws |-> WatchState, clock |-> clock,
                         retry |-> outcome \in {"load_failed", "render_failed"}]
            /\ outcome' = "none"
            /\ load_bad' = FALSE
            /\ last_domain_mtime' = new_domain_mtime
            /\ last_proxy_mtime' = new_proxy_mtime
       ELSE /\ pc' = "sleep"
            /\ UNCHANGED <<snap, outcome, load_bad, last_domain_mtime, last_proxy_mtime>>
    /\ UNCHANGED dvars
    /\ UNCHANGED <<fs, clock, in_loop, exit_code, domains, proxy_pass, domain_path,
                   proxy_path, new_domain_mtime, new_proxy_mtime, ld_domain_path,
                   ld_proxy_path, ld_domains, conf>>

\* main lines 153-155: a reload attempt begins, or the poll ends
PollCompare ==
    /\ pc = "compare"
    /\ IF Changed
       THEN /\ pc' = "resolve"
            /\ snap' = [out |-> fs[conf_path], ws |-> WatchState, clock |-> clock,
                         retry |-> outcome \in {"load_failed", "render_failed"}]
            /\ outcome' = "none"
            /\ load_bad' = FALSE
       ELSE /\ pc' = "sleep"
            /\ UNCHANGED <<snap, outcome, load_bad>>
    /\ UNCHANGED dvars
    /\ UNCHANGED <<fs, clock, in_loop, exit_code, domains, proxy_pass, domain_path,
                   proxy_path, last_domain_mtime, last_proxy_mtime, new_domain_mtime,
                   new_proxy_mtime, ld_domain_path, ld_proxy_path, ld_domains, conf>>

(***************************************************************************)
(* The environment of the watcher: whoever edits the two source files.     *)
(***************************************************************************)
EnvUnchanged ==
    UNCHANGED <<dvars, pc, in_loop, exit_code, domains, proxy_pass, domain_path,
                proxy_path, last_domain_mtime, last_proxy_mtime, new_domain_mtime,
                new_proxy_mtime, ld_domain_path, ld_proxy_path, ld_domains, conf,
                snap, outcome, load_bad>>

EnvWrite ==
    /\ clock < MaxEnvSteps
    /\ pc # "exited"
    /\ \/ \E p \in DomainPaths, c \in EnvDomainContents :
             fs' = [fs EXCEPT ![p] = File(c, clock + 2)]
       \/ \E p \in ProxyPaths, c \in EnvProxyContents :
             fs' = [fs EXCEPT ![p] = File(c, clock + 2)]
    /\ clock' = clock + 1
    /\ EnvUnchanged

EnvDelete ==
    /\ clock < MaxEnvSteps
    /\ pc # "exited"
    /\ \E p \in DomainPaths \cup ProxyPaths :
          /\ fs[p].exists
          /\ fs' = [fs EXCEPT ![p] = NoFile]
    /\ clock' = clock + 1
    /\ EnvUnchanged

WNext ==
    \/ Start
    \/ LoadResolve
    \/ LoadReadDomain
    \/ LoadReadProxy
    \/ InitStatDomain
    \/ InitStatProxy
    \/ RenderOpenTmp
    \/ RenderWriteTmp
    \/ RenderReplace
    \/ ReloadCommit
    \/ PollStatDomain
    \/ PollStatProxy
    \/ PollCompare
    \/ EnvWrite
    \/ EnvDelete

vars == <<wvars, dvars>>

Spec == WInit /\ [][WNext]_vars

(***************************************************************************)
(* The orchestrator: main() of deploy.py.                                  *)
(***************************************************************************)
\* the watcher is not running
WIdle ==
    /\ fs = [p \in Paths |-> NoFile]
    /\ clock = 0 /\ pc = "idle" /\ in_loop = FALSE /\ exit_code = 0
    /\ domains = <<>> /\ proxy_pass = <<>>
    /\ domain_path = NoPath /\ proxy_path = NoPath
    /\ last_domain_mtime = 0 /\ last_proxy_mtime = 0
    /\ new_domain_mtime = 0 /\ new_proxy_mtime = 0
    /\ ld_domain_path = NoPath /\ ld_proxy_path = NoPath /\ ld_domains = <<>>
    /\ conf = <<>>
    /\ snap = [out |-> NoFile, ws |-> WatchState, clock |-> 0, retry |-> FALSE]
    /\ outcome = "none"
    /\ load_bad = FALSE

\* how many times the orchestrator is run
MaxRuns == 2

\* exit statuses of the external commands
ExitCodes == {0, 1, 2}

IP1 == <<"1", ".", "2", ".", "3", ".", "4">>
IP2 == <<"5", ".", "6", ".", "7", ".", "8">>
NoIP == <<>>
\* what curl may end with and print (line 93)
CurlResults ==
    {[rc |-> 0, stdout |-> IP1 \o <<"\n">>], [rc |-> 0, stdout |-> IP2 \o <<"\n">>],
     [rc |-> 0, stdout |-> <<"\n">>], [rc |-> 2, stdout |-> <<>>]}
\* what getaddrinfo may answer (lines 98-104)
DnsAnswers == {NoIP, IP1, IP2}

DeployFiles ==
    { <<D_b, D_cmt, D_wa, D_a>>, <<D_wa>>, <<D_bad_nodot, D_blank>> }

StagingSuffix == <<"-", "s", "t", "a", "g", "i", "n", "g">>
CERTBOT_EMAIL == "wzhang@zionladder.com"

\* cert_exists lines 112-114
cert_exists(certname) ==
    <<certname, "fullchain.pem">> \in certs /\ <<certname, "privkey.pem">> \in certs

\* what a successful certbot run leaves under live/<certname>
Lineage(certname) ==
    {<<certname, "fullchain.pem">>, <<certname, "privkey.pem">>}

\* certbot_cmd lines 116-142, the arguments that vary
certbot_cmd(certname, names, staging, email, force) ==
    [cmd |-> "certbot", cert_name |-> certname, staging |-> staging,
     email |-> email,
     renewal |-> IF ~staging
                 THEN (IF force THEN "--force-renewal" ELSE "--keep-until-expiring")
                 ELSE "",
     d |-> names]

OtherCmd(name) ==
    [cmd |-> name, cert_name |-> <<>>, staging |-> FALSE, email |-> "",
     renewal |-> "", d |-> <<>>]

\* an entry of `calls`: the command, the group it was for, its exit status
Call(c, apex, rc) == [c |-> c, apex |-> apex, rc |-> rc]

\* mutant: sys.exit(1) for sys.exit(e.returncode)
CommandFailed_Status1(rc) ==
    /\ d_pc' = "exited" /\ d_exit' = 1 /\ d_why' = "command failed"

\* sh(..., check=True) raising CalledProcessError, lines 209-213
CommandFailed(rc) ==
    /\ d_pc' = "exited" /\ d_exit' = rc /\ d_why' = "command failed"

\* raise SystemExit(message): status 1
Fatal(msg) ==
    /\ d_pc' = "exited" /\ d_exit' = 1 /\ d_why' = msg

DInit ==
    /\ d_pc = "start" /\ d_run = 1
    /\ d_files \in {[domain |-> TRUE, proxy |-> TRUE], [domain |-> FALSE, proxy |-> TRUE],
                    [domain |-> TRUE, proxy |-> FALSE]}
    /\ d_lines \in DeployFiles
    /\ flags \in [do_staging : BOOLEAN, do_prod : BOOLEAN, force_prod : BOOLEAN,
                  check_a : BOOLEAN]
    /\ pub4 = <<>> /\ d_raw = <<>> /\ d_domains = <<>> /\ groups = <<>> /\ d_i = 0
    /\ certs \in {{}, Lineage(D_a \o StagingSuffix),
                  {<<D_a \o StagingSuffix, "fullchain.pem">>}}
    /\ calls = <<>> /\ gate = <<>> /\ issuing = {} /\ hist = <<>>
    /\ d_exit = 0 /\ d_why = ""
    /\ WIdle

\* main lines 145-157
DStart ==
    /\ d_pc = "start"
    /\ IF ~d_files.proxy
       THEN Fatal("Missing file: proxy_pass")
       ELSE d_pc' = "up" /\ UNCHANGED <<d_exit, d_why>>
    /\ UNCHANGED <<d_run, d_files, d_lines, flags, pub4, d_raw, d_domains, groups,
                   d_i, certs, calls, gate, issuing, hist>>
    /\ UNCHANGED wvars

\* main line 160
DComposeUp ==
    /\ d_pc = "up"
    /\ \E rc \in ExitCodes :
          /\ calls' = Append(calls, Call(OtherCmd("up"), <<>>, rc))
          /\ IF rc # 0 THEN CommandFailed(rc)
             ELSE d_pc' = "pub4" /\ UNCHANGED <<d_exit, d_why>>
    /\ UNCHANGED <<d_run, d_files, d_lines, flags, pub4, d_raw, d_domains, groups,
                   d_i, certs, gate, issuing, hist>>
    /\ UNCHANGED wvars

\* main line 162, get_public_ipv4 lines 91-94
DGetPublicIp ==
    /\ d_pc = "pub4"
    /\ \E r \in CurlResults :
          /\ calls' = Append(calls, Call(OtherCmd("curl"), <<>>, r.rc))
          /\ pub4' = Strip(r.stdout)
    /\ d_pc' = "read_domains"
    /\ UNCHANGED <<d_run, d_files, d_lines, flags, d_raw, d_domains, groups,
                   d_i, certs, gate, issuing, hist, d_exit, d_why>>
    /\ UNCHANGED wvars

\* main line 165, read_domains lines 45-69
DReadDomains ==
    /\ d_pc = "read_domains"
    /\ IF ~d_files.domain
       THEN Fatal("Missing file: domain.list") /\ UNCHANGED <<d_raw, d_domains>>
       ELSE LET r == read_domains(d_lines)
            IN  /\ d_raw' = RawDomains(d_lines)
                /\ IF ~r.ok
                   THEN Fatal("domain.list has no valid domains") /\ UNCHANGED d_domains
                   ELSE /\ d_domains' = r.out
                        /\ d_pc' = "group"
                        /\ UNCHANGED <<d_exit, d_why>>
    /\ UNCHANGED <<d_run, d_files, d_lines, flags, pub4, groups, d_i, certs, calls,
                   gate, issuing, hist>>
    /\ UNCHANGED wvars

\* main line 168
DGroupDomains ==
    /\ d_pc = "group"
    /\ groups' = group_domains(d_domains)
    /\ d_i' = 1
    /\ d_pc' = "loop"
    /\ UNCHANGED <<d_run, d_files, d_lines, flags, pub4, d_raw, d_domains, certs,
                   calls, gate, issuing, hist, d_exit, d_why>>
    /\ UNCHANGED wvars

\* main lines 172-177: the next group, or the end of the loop
DLoop ==
    /\ d_pc = "loop"
    /\ IF d_i > Len(groups)
       THEN d_pc' = "nginx_test" /\ UNCHANGED <<d_i, issuing>>
       ELSE IF groups[d_i].names = <<>>
       THEN d_pc' = "loop" /\ d_i' = d_i + 1 /\ UNCHANGED issuing
       ELSE IF flags.check_a
       THEN d_pc' = "dns" /\ UNCHANGED <<d_i, issuing>>
       ELSE /\ d_pc' = "staging"
            /\ issuing' = issuing \cup {groups[d_i].apex}
            /\ UNCHANGED d_i
    /\ UNCHANGED <<d_run, d_files, d_lines, flags, pub4, d_raw, d_domains, groups,
                   certs, calls, gate, hist, d_exit, d_why>>
    /\ UNCHANGED wvars

\* mutant: the `not a` test is missing
GateBlocks_NoEmptyCheck(a, p) == a # p

\* main line 180
GateBlocks(a, p) == a = NoIP \/ p = NoIP \/ a # p

\* main lines 178-182, resolve_a lines 96-104
DDnsCheck ==
    /\ d_pc = "dns"
    /\ \E a \in DnsAnswers :
          /\ gate' = Append(gate, [apex |-> groups[d_i].apex, a |-> a, pub4 |-> pub4])
          /\ IF GateBlocks(a, pub4)
             THEN d_pc' = "loop" /\ d_i' = d_i + 1 /\ UNCHANGED issuing
             ELSE /\ d_pc' = "staging"
                  /\ issuing' = issuing \cup {groups[d_i].apex}
                  /\ UNCHANGED d_i
    /\ UNCHANGED <<d_run, d_files, d_lines, flags, pub4, d_raw, d_domains, groups,
                   certs, calls, hist, d_exit, d_why>>
    /\ UNCHANGED wvars

\* the staging certbot run of line 192 and what it leaves behind
StagingInvoke(apex, names) ==
    LET staging_name == apex \o StagingSuffix
        c == certbot_cmd(staging_name, names, TRUE, CERTBOT_EMAIL, FALSE)
    IN  \E rc \in ExitCodes :
          /\ calls' = Append(calls, Call(c, apex, rc))
          /\ hist' = Append(hist, [cert_name |-> staging_name, rc |-> rc,
                                   run |-> d_run,
                                   had |-> {f \in certs : f[1] = staging_name}])
          /\ IF rc # 0
             THEN CommandFailed(rc) /\ UNCHANGED certs
             ELSE /\ certs' = certs \cup Lineage(staging_name)
                  /\ d_pc' = "prod"
                  /\ UNCHANGED <<d_exit, d_why>>

\* mutant: the cert_exists test of line 188 is missing
DStaging_NoSkip ==
    /\ d_pc = "staging"
    /\ IF flags.do_staging
       THEN StagingInvoke(groups[d_i].apex, groups[d_i].names)
       ELSE d_pc' = "prod" /\ UNCHANGED <<certs, calls, hist, d_exit, d_why>>
    /\ UNCHANGED <<d_run, d_files, d_lines, flags, pub4, d_raw, d_domains, groups,
                   d_i, gate, issuing>>
    /\ UNCHANGED wvars

\* main lines 184-192
DStaging ==
    /\ d_pc = "staging"
    /\ IF flags.do_staging /\ ~cert_exists(groups[d_i].apex \o StagingSuffix)
       THEN StagingInvoke(groups[d_i].apex, groups[d_i].names)
       ELSE d_pc' = "prod" /\ UNCHANGED <<certs, calls, hist, d_exit, d_why>>
    /\ UNCHANGED <<d_run, d_files, d_lines, flags, pub4, d_raw, d_domains, groups,
                   d_i, gate, issuing>>
    /\ UNCHANGED wvars

\* mutant: production issuance is skipped when a record exists, as staging is
DProd_SkipExisting ==
    /\ d_pc = "prod"
    /\ IF flags.do_prod /\ ~cert_exists(groups[d_i].apex)
       THEN LET apex == groups[d_i].apex
                c == certbot_cmd(apex, groups[d_i].names, FALSE, CERTBOT_EMAIL,
                                 flags.force_prod)
            IN  \E rc \in ExitCodes :
                  /\ calls' = Append(calls, Call(c, apex, rc))
                  /\ IF rc # 0
                     THEN CommandFailed(rc) /\ UNCHANGED <<certs, d_i>>
                     ELSE /\ certs' = certs \cup Lineage(apex)
                          /\ d_pc' = "loop"
                          /\ d_i' = d_i + 1
                          /\ UNCHANGED <<d_exit, d_why>>
       ELSE /\ d_pc' = "loop"
            /\ d_i' = d_i + 1
            /\ UNCHANGED <<certs, calls, d_exit, d_why>>
    /\ UNCHANGED <<d_run, d_files, d_lines, flags, pub4, d_raw, d_domains, groups,
                   gate, issuing, hist>>
    /\ UNCHANGED wvars

\* main lines 194-198
DProd ==
    /\ d_pc = "prod"
    /\ IF flags.do_prod
       THEN LET apex == groups[d_i].apex
                c == certbot_cmd(apex, groups[d_i].names, FALSE, CERTBOT_EMAIL,
                                 flags.force_prod)
            IN  \E rc \in ExitCodes :
                  /\ calls' = Append(calls, Call(c, apex, rc))
                  /\ IF rc # 0
                     THEN CommandFailed(rc) /\ UNCHANGED <<certs, d_i>>
                     ELSE /\ certs' = certs \cup Lineage(apex)
                          /\ d_pc' = "loop"
                          /\ d_i' = d_i + 1
                          /\ UNCHANGED <<d_exit, d_why>>
       ELSE /\ d_pc' = "loop"
            /\ d_i' = d_i + 1
            /\ UNCHANGED <<certs, calls, d_exit, d_why>>
    /\ UNCHANGED <<d_run, d_files, d_lines, flags, pub4, d_raw, d_domains, groups,
                   gate, issuing, hist>>
    /\ UNCHANGED wvars

\* mutant: the validate command is run with check=False
DNginxTest_Unchecked ==
    /\ d_pc = "nginx_test"
    /\ \E rc \in ExitCodes :
          calls' = Append(calls, Call(OtherCmd("nginx -t"), <<>>, rc))
    /\ d_pc' = "nginx_reload"
    /\ UNCHANGED <<d_run, d_files, d_lines, flags, pub4, d_raw, d_domains, groups,
                   d_i, certs, gate, issuing, hist, d_exit, d_why>>
    /\ UNCHANGED wvars

\* main line 201
DNginxTest ==
    /\ d_pc = "nginx_test"
    /\ \E rc \in ExitCodes :
          /\ calls' = Append(calls, Call(OtherCmd("nginx -t"), <<>>, rc))
          /\ IF rc # 0 THEN CommandFailed(rc)
             ELSE d_pc' = "nginx_reload" /\ UNCHANGED <<d_exit, d_why>>
    /\ UNCHANGED <<d_run, d_files, d_lines, flags, pub4, d_raw, d_domains, groups,
                   d_i, certs, gate, issuing, hist>>
    /\ UNCHANGED wvars

\* main lines 202-204
DNginxReload ==
    /\ d_pc = "nginx_reload"
    /\ \E rc \in ExitCodes :
          /\ calls' = Append(calls, Call(OtherCmd("nginx -s reload"), <<>>, rc))
          /\ IF rc # 0 THEN CommandFailed(rc)
             ELSE d_pc' = "done" /\ UNCHANGED <<d_exit, d_why>>
    /\ UNCHANGED <<d_run, d_files, d_lines, flags, pub4, d_raw, d_domains, groups,
                   d_i, certs, gate, issuing, hist>>
    /\ UNCHANGED wvars

\* the operator runs deploy.py again: files, flags and issued certificates stay
DRerun ==
    /\ d_pc \in {"done", "exited"}
    /\ d_run < MaxRuns
    /\ d_run' = d_run + 1
    /\ d_pc' = "start"
    /\ pub4' = <<>> /\ d_raw' = <<>> /\ d_domains' = <<>> /\ groups' = <<>>
    /\ d_i' = 0 /\ calls' = <<>> /\ gate' = <<>> /\ issuing' = {}
    /\ d_exit' = 0 /\ d_why' = ""
    /\ UNCHANGED <<d_files, d_lines, flags, certs, hist>>
    /\ UNCHANGED wvars

DNext ==
    \/ DStart
    \/ DComposeUp
    \/ DGetPublicIp
    \/ DReadDomains
    \/ DGroupDomains
    \/ DLoop
    \/ DDnsCheck
    \/ DStaging
    \/ DProd
    \/ DNginxTest
    \/ DNginxReload
    \/ DRerun

SpecDeploy == DInit /\ [][DNext]_vars

(***************************************************************************)
(* read_domains and group_domains on their own, over every domain.list of  *)
(* up to MaxLines lines of LinePool.                                       *)
(***************************************************************************)
FInit ==
    /\ d_pc = "read_domains" /\ d_run = 1
    /\ d_files = [domain |-> TRUE, proxy |-> TRUE]
    /\ d_lines \in SeqsUpTo(LinePool, MaxLines)
    /\ flags = NoFlags /\ pub4 = <<>>
    /\ d_raw = <<>> /\ d_domains = <<>> /\ groups = <<>> /\ d_i = 0
    /\ certs = {} /\ calls = <<>> /\ gate = <<>> /\ issuing = {} /\ hist = <<>>
    /\ d_exit = 0 /\ d_why = ""
    /\ WIdle

FNext ==
    \/ DReadDomains
    \/ DGroupDomains

SpecDomains == FInit /\ [][FNext]_vars

(***************************************************************************)
(* Properties of the watcher.                                              *)
(***************************************************************************)
RUNNING == in_loop /\ pc # "exited"
Out == fs[conf_path]
IsCompleteDoc(lines) ==
    /\ Len(lines) = 5
    /\ lines[1] = DocHead /\ lines[3] = DocAcme /\ lines[5] = DocTail

\* C1: a reload attempt whose load fails (no candidate is a non-empty file,
\* the file vanished, no domain line, no proxy line) leaves the rendered
\* output file exactly as it was when the attempt began.
C1_FailedLoadKeepsOutput ==
    (in_loop /\ load_bad) => Out = snap.out

C1_Witness ==
    /\ in_loop /\ pc = "sleep" /\ load_bad /\ outcome = "load_failed"
    /\ snap.out.exists /\ Out.exists

\* C2: a reload attempt that fails at any step (load or render) leaves the
\* four components of WatchState as they were when the attempt began.
C2_FailedReloadKeepsWatchState ==
    (in_loop /\ pc = "sleep" /\ outcome \in {"load_failed", "render_failed"})
        => WatchState = snap.ws

\* C3: once the watcher is RUNNING every step leaves it RUNNING: no file
\* change, deletion or failed reload makes the process exit.
C3_RunningStaysRunning ==
    [][RUNNING => RUNNING']_vars

C3_Witness ==
    /\ RUNNING /\ pc = "stat_proxy" /\ outcome = "load_failed"
    /\ ~fs[domain_path].exists

\* C4: a failed initial load terminates the process with a non-zero status,
\* with the output file and its temporary never written and the loop never
\* entered.
C4_StartupFailureIsFatal ==
    (~in_loop /\ load_bad) =>
        /\ pc = "exited" /\ exit_code # 0
        /\ ~Out.exists /\ ~fs[tmp_path].exists
        /\ outcome = "none"

C4_Witness ==
    /\ pc = "exited" /\ load_bad /\ ~in_loop
    /\ ld_domain_path # NoPath /\ fs[ld_domain_path].exists
    /\ ContentLines(fs[ld_domain_path].lines) = <<>>

\* C5: a poll attempts a reload iff one of the two observed mtimes differs
\* from the baseline; a poll that finds both equal loads nothing, writes
\* nothing and leaves the WatchState alone; a reload that succeeds ends with
\* the baseline equal to the mtimes observed in that poll, the active
\* domains and target equal to the ones just loaded and rendered.
C5_ReloadIffChanged ==
    [][ /\ (pc = "compare" /\ pc' # "compare") =>
            LET differs == \/ new_domain_mtime # last_domain_mtime
                           \/ new_proxy_mtime # last_proxy_mtime
            IN  /\ (pc' = "resolve") <=> differs
                /\ ~differs => /\ pc' = "sleep"
                               /\ UNCHANGED <<fs, domains, proxy_pass,
                                              last_domain_mtime, last_proxy_mtime>>
        /\ (in_loop /\ pc # "sleep" /\ pc' = "sleep" /\ outcome' = "ok") =>
            /\ last_domain_mtime' = new_domain_mtime
            /\ last_proxy_mtime' = new_proxy_mtime
            /\ domains' = ld_domains
            /\ Out'.lines = RenderConf(ld_domains, proxy_pass')
      ]_vars

C5_Witness ==
    /\ in_loop /\ pc = "sleep" /\ outcome = "ok"
    /\ last_domain_mtime = new_domain_mtime /\ last_domain_mtime > 1
    /\ WatchState # snap.ws

\* C6: whatever the watcher is doing, the output path holds either the
\* complete document it held when the attempt began or the complete newly
\* rendered one; a render that fails, also after a partial write of the
\* temporary file, leaves the output path untouched.
C6_OutputNeverPartial ==
    /\ Out.exists => IsCompleteDoc(Out.lines)
    /\ \/ Out = snap.out
       \/ Out.exists /\ Out.lines = RenderConf(domains, proxy_pass)
    /\ outcome = "render_failed" => Out = snap.out

C6_Witness ==
    /\ in_loop /\ outcome = "render_failed"
    /\ fs[tmp_path].exists
    /\ Len(fs[tmp_path].lines) \in 1..4
    /\ Out.exists /\ Out.lines # conf

(***************************************************************************)
(* Properties of validation and grouping (SpecDomains).                    *)
(***************************************************************************)
\* a domain with a literal leading "www." removed once
StripWwwOnce(d) ==
    IF Len(d) >= 4 /\ d[1] = "w" /\ d[2] = "w" /\ d[3] = "w" /\ d[4] = "."
    THEN [i \in 1..(Len(d) - 4) |-> d[i + 4]]
    ELSE d

\* a comes strictly before b in lexicographic order of code points
LexBefore(a, b) ==
    \E k \in 1..Len(b) :
        /\ \A j \in 1..(k - 1) : j <= Len(a) /\ a[j] = b[j]
        /\ \/ k = Len(a) + 1
           \/ k <= Len(a) /\ Ord(a[k]) < Ord(b[k])

\* C7: group_domains returns exactly one group per distinct apex (the domain
\* with a leading "www." stripped once), in strictly ascending lexicographic
\* order of the apex whatever the input order; a group's members are the
\* apex iff it is in the input, then "www.<apex>" iff it is in the input.
C7_GroupDomains ==
    (d_pc = "loop") =>
        LET S == Range(d_domains)
            A == {StripWwwOnce(d) : d \in S}
        IN  /\ Len(groups) = Cardinality(A)
            /\ {groups[i].apex : i \in 1..Len(groups)} = A
            /\ \A i, j \in 1..Len(groups) :
                   i < j => LexBefore(groups[i].apex, groups[j].apex)
            /\ \A i \in 1..Len(groups) :
                   LET apex == groups[i].apex
                       www == <<"w", "w", "w", ".">> \o apex
                   IN  groups[i].names =
                           (IF apex \in S THEN <<apex>> ELSE <<>>)
                           \o (IF www \in S THEN <<www>> ELSE <<>>)

C7_Witness ==
    /\ d_pc = "loop" /\ Len(d_domains) = 3 /\ Len(groups) = 2
    /\ StripWwwOnce(d_domains[1]) = groups[2].apex
    /\ d_domains[2] = <<"w", "w", "w", ".">> \o groups[1].apex
    /\ d_domains[3] = groups[1].apex
    /\ groups[1].names = <<d_domains[3], d_domains[2]>>

\* the validation rule in the words of the specification
PassesValidation(d) ==
    /\ d # <<>>
    /\ d[1] \in AlnumChars /\ d[Len(d)] \in AlnumChars
    /\ \A i \in 1..Len(d) : d[i] \in AlnumChars \/ d[i] = "." \/ d[i] = "-"
    /\ \E i \in 1..Len(d) : d[i] = "."

\* the first occurrences of the valid strings of raw, in order
RECURSIVE FirstValidFrom(_, _)
FirstValidFrom(raw, i) ==
    IF i > Len(raw) THEN <<>>
    ELSE IF PassesValidation(raw[i]) /\ \A j \in 1..(i - 1) : raw[j] # raw[i]
    THEN <<raw[i]>> \o FirstValidFrom(raw, i + 1)
    ELSE FirstValidFrom(raw, i + 1)

\* C8: read_domains returns the first occurrence of every distinct string of
\* the raw list that passes validation, in the original order, without
\* duplicates, and fails (fatally) iff there is none.
C8_ReadDomains ==
    LET expected == FirstValidFrom(d_raw, 1)
    IN  /\ d_pc = "group" => (d_domains = expected /\ expected # <<>>)
        /\ (d_pc = "exited" /\ d_why = "domain.list has no valid domains")
               => (expected = <<>> /\ d_exit # 0)
        /\ \A i, j \in 1..Len(d_domains) : i # j => d_domains[i] # d_domains[j]

C8_Witness ==
    /\ d_pc = "group" /\ Len(d_raw) = 3 /\ Len(d_domains) = 1
    /\ d_raw[1] = d_raw[3] /\ ~PassesValidation(d_raw[2])
    /\ d_domains = <<d_raw[1]>>

(***************************************************************************)
(* Properties of the orchestrator (SpecDeploy).                            *)
(***************************************************************************)
GateOpen(g) == g.a # <<>> /\ g.pub4 # <<>> /\ g.a = g.pub4
GroupIndex(apex) == CHOOSE i \in 1..Len(groups) : groups[i].apex = apex

\* C9: with A-record verification on, a group whose apex resolved to nothing,
\* or for which the public IPv4 is empty, or whose address differs from the
\* public IPv4, gets no ACME client invocation in the run and the loop goes
\* on to the next group; a group with equal non-empty addresses proceeds to
\* issuance; and only such groups are ever issued for.
C9_DnsGate ==
    flags.check_a =>
        /\ \A k \in 1..Len(gate) :
               LET g == gate[k]
               IN  /\ GateOpen(g) <=> g.apex \in issuing
                   /\ ~GateOpen(g) =>
                          /\ \A c \in 1..Len(calls) : calls[c].apex # g.apex
                          /\ d_i > GroupIndex(g.apex)
                          /\ (d_pc = "exited" => Len(calls) > 0
                                /\ calls[Len(calls)].apex # g.apex)
        /\ \A c \in 1..Len(calls) :
               calls[c].c.cmd = "certbot" =>
                   \E k \in 1..Len(gate) :
                       gate[k].apex = calls[c].apex /\ GateOpen(gate[k])
        /\ d_pc \in {"nginx_test", "nginx_reload", "done"} =>
               \A i \in 1..Len(groups) :
                   \E k \in 1..Len(gate) : gate[k].apex = groups[i].apex

C9_Witness ==
    /\ flags.check_a /\ d_pc = "done" /\ Len(gate) = 2
    /\ ~GateOpen(gate[1]) /\ gate[1].a # <<>> /\ gate[1].pub4 # <<>>
    /\ GateOpen(gate[2])
    /\ \E c \in 1..Len(calls) :
          calls[c].c.cmd = "certbot" /\ calls[c].apex = gate[2].apex

\* C10 as stated: at most one staging invocation per certificate name ever
\* occurs, over all runs.
C10_AtMostOneStagingInvocationEver ==
    \A i, j \in 1..Len(hist) :
        i < j => hist[i].cert_name # hist[j].cert_name

\* C10, amended: the staging client is invoked for "<apex>-staging" only when
\* fullchain.pem and privkey.pem do not both exist under that name, and once
\* an invocation has succeeded (creating the record) no later invocation for
\* that name occurs in this or any later run; only failed invocations are
\* repeated.
C10_StagingOnlyWithoutRecord ==
    /\ \A i \in 1..Len(hist) :
           ~({<<hist[i].cert_name, "fullchain.pem">>,
              <<hist[i].cert_name, "privkey.pem">>} \subseteq hist[i].had)
    /\ \A i, j \in 1..Len(hist) :
           (i < j /\ hist[i].cert_name = hist[j].cert_name) => hist[i].rc # 0

C10_Witness ==
    /\ d_run = 2 /\ d_pc = "prod" /\ flags.do_staging
    /\ Len(hist) = 1 /\ hist[1].run = 1 /\ hist[1].rc = 0
    /\ hist[1].cert_name = groups[d_i].apex \o StagingSuffix
    /\ \A c \in 1..Len(calls) : calls[c].c.cmd # "certbot"

IsCertbot(c) == calls[c].c.cmd = "certbot"
IsNginx(c) == calls[c].c.cmd \in {"nginx -t", "nginx -s reload"}

\* C11 as stated: every external command that returns a non-zero status,
\* the public-IP lookup included, ends the orchestrator with that status.
C11_EveryNonZeroStatusIsFatal ==
    \A c \in 1..Len(calls) :
        calls[c].rc # 0 => (d_pc = "exited" /\ d_exit = calls[c].rc)

\* C11, amended: every command run through sh() (compose up, the ACME
\* client, nginx -t, nginx -s reload) that returns a non-zero status is the
\* last command of the run and the orchestrator exits with that status, so
\* no later group is processed and validate/reload are not issued; the
\* public-IP lookup is run unchecked and its status is ignored.
C11_CheckedCommandFailureIsFatal ==
    \A c \in 1..Len(calls) :
        (calls[c].rc # 0 /\ calls[c].c.cmd # "curl") =>
            /\ c = Len(calls)
            /\ d_pc = "exited" /\ d_exit = calls[c].rc
            /\ d_why = "command failed"
            /\ IsCertbot(c) =>
                   /\ groups[d_i].apex = calls[c].apex
                   /\ \A k \in 1..Len(gate) :
                          GroupIndex(gate[k].apex) <= d_i

C11_Witness ==
    /\ d_pc = "exited" /\ d_exit = 2 /\ Len(calls) > 0
    /\ IsCertbot(Len(calls)) /\ calls[Len(calls)].rc = 2
    /\ d_i < Len(groups)
    /\ \A c \in 1..Len(calls) : ~IsNginx(c)

\* C12: in a run the validate command and the reload command are each
\* issued at most once, only after the loop has gone through every group,
\* validate immediately before reload, and reload only after validate
\* returned zero.
C12_ValidateThenReloadOnce ==
    /\ Cardinality({c \in 1..Len(calls) : calls[c].c.cmd = "nginx -t"}) <= 1
    /\ Cardinality({c \in 1..Len(calls) : calls[c].c.cmd = "nginx -s reload"}) <= 1
    /\ \A c \in 1..Len(calls) :
           IsNginx(c) =>
               /\ d_i > Len(groups) /\ groups # <<>>
               /\ \A k \in 1..Len(calls) : (IsCertbot(k) \/ ~IsNginx(k)) => k < c
    /\ \A c \in 1..Len(calls) :
           calls[c].c.cmd = "nginx -s reload" =>
               /\ c > 1
               /\ calls[c - 1].c.cmd = "nginx -t"
               /\ calls[c - 1].rc = 0

C12_Witness ==
    /\ d_pc = "done" /\ Len(groups) = 2 /\ Len(calls) >= 6
    /\ calls[Len(calls)].c.cmd = "nginx -s reload"
    /\ calls[Len(calls) - 1].c.cmd = "nginx -t"
    /\ IsCertbot(Len(calls) - 2)

IsProdCall(c) == IsCertbot(c) /\ ~calls[c].c.staging
IsStagingCall(c) == IsCertbot(c) /\ calls[c].c.staging

\* the production invocation the group of `apex` is due: named by the apex,
\* for the group's member domains
ProdInvoked(apex) ==
    \E c \in 1..Len(calls) :
        /\ IsProdCall(c)
        /\ calls[c].c.cert_name = apex
        /\ calls[c].c.d = groups[GroupIndex(apex)].names

\* the group of `apex` is the one the loop is working on, before line 194
ProdPending(apex) ==
    /\ d_pc \in {"staging", "prod"}
    /\ groups[d_i].apex = apex

C13_ProdCallsWellFormed ==
    /\ ~flags.do_prod => \A c \in 1..Len(calls) : ~IsProdCall(c)
    /\ \A c \in 1..Len(calls) :
           IsProdCall(c) =>
               /\ calls[c].apex \in issuing
               /\ calls[c].c.cert_name = calls[c].apex
               /\ calls[c].c.d = groups[GroupIndex(calls[c].apex)].names
               /\ calls[c].c.d # <<>>

\* C13 as stated: with production issuance enabled every non-empty group
\* that passed the DNS gate gets its production invocation (certificate name
\* the apex, the group's members), whatever records exist; with production
\* issuance disabled there is none.
C13_ProdAlwaysInvokedWhenEnabled ==
    /\ C13_ProdCallsWellFormed
    /\ flags.do_prod =>
           \A apex \in issuing : ProdPending(apex) \/ ProdInvoked(apex)

\* the run ended in the staging invocation of the group of `apex`
StagingFailedFor(apex) ==
    /\ d_pc = "exited" /\ Len(calls) > 0
    /\ IsStagingCall(Len(calls))
    /\ calls[Len(calls)].apex = apex
    /\ calls[Len(calls)].rc # 0

\* C13, amended: with production issuance enabled, every non-empty group
\* that passed the DNS gate and whose staging step did not fail gets its
\* production invocation (certificate name the apex, the group's members),
\* whether or not a certificate record exists under that name; a failing
\* staging invocation ends the run before the production client is invoked
\* for that group; with production issuance disabled it is never invoked.
C13_ProdInvokedUnlessStagingFailed ==
    /\ C13_ProdCallsWellFormed
    /\ flags.do_prod =>
           \A apex \in issuing :
               \/ ProdPending(apex)
               \/ ProdInvoked(apex)
               \/ (StagingFailedFor(apex) /\ ~ProdInvoked(apex))

C13_Witness ==
    /\ flags.do_prod /\ Len(calls) > 0
    /\ IsProdCall(Len(calls))
    /\ calls[Len(calls)].rc # 0
    /\ cert_exists(calls[Len(calls)].apex)
    /\ calls[Len(calls)].c.cert_name = calls[Len(calls)].apex

CertbotCalls == {c \in 1..Len(calls) : IsCertbot(c)}

\* C15: the ACME client invocations of a run, in the order they were issued,
\* go through the groups in ascending lexicographic order of apex, at most
\* one staging and one production invocation per group with staging first,
\* and each has returned its exit status before the next command is issued.
C15_InvocationsSequentialAndOrdered ==
    /\ \A i, j \in CertbotCalls :
           i < j =>
               \/ LexBefore(calls[i].apex, calls[j].apex)
               \/ /\ calls[i].apex = calls[j].apex
                  /\ j = i + 1
                  /\ IsStagingCall(i) /\ IsProdCall(j)
    /\ \A i \in CertbotCalls :
           /\ calls[i].rc \in ExitCodes
           /\ i < Len(calls) => calls[i].rc = 0
           /\ GroupIndex(calls[i].apex) <= d_i
           /\ d_pc \in {"dns", "staging"} => GroupIndex(calls[i].apex) < d_i

C15_Witness ==
    /\ Len(groups) = 2 /\ d_pc = "loop" /\ d_i = 3
    /\ \E c \in 1..Len(calls) :
           /\ c + 3 = Len(calls)
           /\ IsStagingCall(c) /\ IsProdCall(c + 1)
           /\ IsStagingCall(c + 2) /\ IsProdCall(c + 3)
           /\ calls[c].apex = groups[1].apex /\ calls[c + 1].apex = groups[1].apex
           /\ calls[c + 2].apex = groups[2].apex /\ calls[c + 3].apex = groups[2].apex

GroupsHolding(d) == {i \in 1..Len(groups) : \E k \in 1..Len(groups[i].names) : groups[i].names[k] = d}

\* C18 as stated: once the groups are built, every validated domain is a
\* member of exactly one group, so no name is requested under two
\* certificate names.
C18_EachDomainInExactlyOneGroup ==
    d_pc = "loop" =>
        \A k \in 1..Len(d_domains) : Cardinality(GroupsHolding(d_domains[k])) = 1

\* C19: for a non-empty validated domain list every group that
\* group_domains returns has at least one member, so the loop's test for a
\* group without names (line 173) is never true.
C19_NoEmptyGroup ==
    (d_pc = "loop" /\ d_domains # <<>>) =>
        /\ groups # <<>>
        /\ \A i \in 1..Len(groups) :
               /\ groups[i].names # <<>>
               /\ \E k \in 1..Len(d_domains) :
                      d_domains[k] \in {groups[i].apex, WwwPrefix \o groups[i].apex}

C19_Witness ==
    /\ d_pc = "loop" /\ Len(d_domains) = 2 /\ Len(groups) = 2
    /\ groups[1].names = <<WwwPrefix \o groups[1].apex>>
    /\ groups[2].names = <<groups[2].apex>>

(***************************************************************************)
(* Further properties of the watcher.                                      *)
(***************************************************************************)
\* load_configs has returned to main and nothing has been loaded since
AfterSuccessfulLoad ==
    \/ pc \in {"stat_domain0", "stat_proxy0", "open_tmp", "write_tmp", "replace", "commit"}
    \/ (in_loop /\ pc \in {"sleep", "stat_proxy", "compare"} /\ outcome = "ok")

\* C14 as stated: after every successful load, at startup or in a reload,
\* the two paths the watcher stats are the paths that load resolved among
\* the candidate locations.
C14_WatchedPathsAreLoadedPaths ==
    AfterSuccessfulLoad =>
        /\ domain_path = ld_domain_path
        /\ proxy_path = ld_proxy_path

\* the lines of a source file as the claim describes them: blank lines and
\* comment lines dropped, the others trimmed, kept in file order, duplicates
\* and malformed names included
RECURSIVE C16_Kept(_)
C16_Kept(lines) ==
    IF lines = <<>> THEN <<>>
    ELSE LET t == Strip(Head(lines))
         IN  IF t = <<>> \/ t[1] = "#"
             THEN C16_Kept(Tail(lines))
             ELSE <<t>> \o C16_Kept(Tail(lines))

RECURSIVE C16_SpaceJoined(_)
C16_SpaceJoined(ws) ==
    IF ws = <<>> THEN <<>>
    ELSE IF Tail(ws) = <<>> THEN Head(ws)
    ELSE Head(ws) \o <<" ">> \o C16_SpaceJoined(Tail(ws))

C16_Directive(ws) == <<"    server_name ">> \o C16_SpaceJoined(ws) \o <<";\n">>

\* load_configs reads the domain file
C16_DomainsAsRead ==
    (pc = "read_domain" /\ pc' = "read_proxy") =>
        /\ ld_domains' = C16_Kept(fs[ld_domain_path].lines)
        /\ ld_domains' # <<>>

\* load_configs reads the proxy file and returns to main
C16_ProxyAsRead ==
    (pc = "read_proxy" /\ pc' \in {"stat_domain0", "open_tmp"}) =>
        /\ domains' = ld_domains
        /\ proxy_pass' = C16_Kept(fs[ld_proxy_path].lines)[1]

\* write_http_vhost is called and builds the document
C16_RenderCall ==
    (pc = "open_tmp" /\ conf' # conf) =>
        /\ domains # <<>> /\ proxy_pass # <<>>
        /\ domains = ld_domains
        /\ conf'[2] = C16_Directive(ld_domains)
        /\ conf'[4] = <<"        proxy_pass ">> \o proxy_pass \o <<";\n">>

\* the document reaches the output file
C16_Written ==
    (pc = "replace" /\ pc' \in {"sleep", "commit"} /\ pc' # pc /\ outcome' = outcome) =>
        /\ fs'[conf_path].lines[2] = C16_Directive(domains)
        /\ fs'[conf_path].lines[4] = <<"        proxy_pass ">> \o proxy_pass \o <<";\n">>

\* C16: every render, at startup or on reload, is called with a non-empty
\* domain list and a non-empty proxy target; its server_name directive lists
\* exactly the lines of the domain file that are neither blank nor comments,
\* trimmed, in file order, joined by single spaces, with duplicates and
\* malformed names kept; the proxy target is the first such line of the
\* proxy file.
C16_RenderUsesLoadedLines ==
    [][C16_DomainsAsRead /\ C16_ProxyAsRead /\ C16_RenderCall /\ C16_Written]_vars

C16_Witness ==
    /\ in_loop /\ pc = "sleep"
    /\ domains = <<L_a, L_b, L_a>>
    /\ proxy_pass = L_p
    /\ Out.exists
    /\ Out.lines[2] = <<"    server_name ", "a", ".", "c", " ", "b", ".", "c", " ", "a", ".", "c", ";\n">>

\* the watcher is between polls and a poll of the files as they are now
\* would see no change
Quiescent ==
    /\ in_loop /\ pc = "sleep"
    /\ mtime(domain_path) = last_domain_mtime
    /\ mtime(proxy_path) = last_proxy_mtime

\* the two watched files can be loaded as they are now
WatchedLoadable ==
    /\ IsNonEmptyFile(domain_path) /\ C16_Kept(fs[domain_path].lines) # <<>>
    /\ IsNonEmptyFile(proxy_path) /\ C16_Kept(fs[proxy_path].lines) # <<>>

\* the output file holds the document for the current contents of `dp`, `pp`
OutputCorrespondsTo(dp, pp) ==
    /\ Out.exists
    /\ Out.lines = RenderConf(C16_Kept(fs[dp].lines), C16_Kept(fs[pp].lines)[1])

\* C17 as stated, in the form a finite run refutes: whenever the watcher
\* has come to rest (the watched files, left as they are, will never again
\* differ from the baseline) and the watched files are loadable, the output
\* file corresponds to their current contents; otherwise a modification has
\* been missed for good.
C17_NoModificationMissed ==
    (Quiescent /\ WatchedLoadable) => OutputCorrespondsTo(domain_path, proxy_path)

\* load_configs would succeed on the files as they are now
C20_Loadable ==
    LET dp == _first_existing_file(domain_candidates)
        pp == _first_existing_file(proxy_candidates)
    IN  /\ dp # NoPath /\ pp # NoPath
        /\ C16_Kept(fs[dp].lines) # <<>>
        /\ C16_Kept(fs[pp].lines) # <<>>

C20_Failed == outcome \in {"load_failed", "render_failed"}

\* the observed mtimes differ from the baseline (line 153)
C20_Differ ==
    new_domain_mtime # last_domain_mtime \/ new_proxy_mtime # last_proxy_mtime

\* after a failed attempt the baseline is the one the attempt began with
C20_FailedKeepsBaseline ==
    (in_loop /\ pc = "sleep" /\ C20_Failed) =>
        /\ last_domain_mtime = snap.ws.domain_mtime
        /\ last_proxy_mtime = snap.ws.proxy_mtime

\* the step in which an attempt fails leaves the baseline alone, still
\* different from the mtimes its poll observed
C20_FailureLeavesDifference ==
    (in_loop /\ pc \notin {"sleep", "stat_proxy", "compare"} /\ pc' = "sleep"
        /\ outcome' \in {"load_failed", "render_failed"}) =>
        /\ last_domain_mtime' = last_domain_mtime
        /\ last_proxy_mtime' = last_proxy_mtime
        /\ new_domain_mtime' # last_domain_mtime' \/ new_proxy_mtime' # last_proxy_mtime'

\* a poll that observes a difference attempts the reload, whatever came before
C20_DifferenceIsRetried ==
    (in_loop /\ pc = "compare" /\ pc' # pc /\ C20_Differ) =>
        (pc' = "resolve" /\ snap'.retry = C20_Failed)

\* the attempt that followed a failed one has ended, and the files were
\* loadable and untouched from the moment it began
C20_RetryOverLoadableFiles ==
    /\ in_loop /\ pc = "sleep" /\ outcome # "none"
    /\ snap.retry
    /\ snap.clock = clock
    /\ C20_Loadable

\* C20 as stated: a failed reload leaves the baseline unchanged, and the
\* retry made by the next poll once the files are loadable is a successful
\* reload.
C20_RetryIsSuccessfulReload ==
    /\ C20_FailedKeepsBaseline
    /\ C20_RetryOverLoadableFiles => outcome = "ok"

\* C20, amended: a failed reload leaves the baseline unchanged; every later
\* poll whose observed mtimes differ from the baseline attempts the reload
\* again, even if the mtimes did not change after the failed attempt; once
\* the files are loadable the load of the next attempt succeeds, and the
\* reload completes (output rewritten from the loaded values, baseline moved
\* to the observed mtimes) unless writing the output file fails, in which
\* case the baseline again stays and the reload is retried.
C20_RetryLoadsAndCompletesUnlessWriteFails ==
    /\ [](/\ C20_FailedKeepsBaseline
          /\ C20_RetryOverLoadableFiles =>
                 /\ outcome \in {"ok", "render_failed"}
                 /\ outcome = "ok" =>
                        /\ OutputCorrespondsTo(ld_domain_path, ld_proxy_path)
                        /\ last_domain_mtime = new_domain_mtime
                        /\ last_proxy_mtime = new_proxy_mtime)
    /\ [][C20_FailureLeavesDifference /\ C20_DifferenceIsRetried]_vars

C20_Witness ==
    /\ C20_RetryOverLoadableFiles
    /\ outcome = "ok"
    /\ new_domain_mtime = snap.ws.domain_mtime \/ new_proxy_mtime = snap.ws.proxy_mtime
    /\ ~fs[domain_path].exists
    /\ ld_domain_path # domain_path

====
